---- MODULE Spec2Model ----
(***************************************************************************)
(* State-machine model of utilities.py (EDS reanalysis point extraction):  *)
(* the k-nearest-centroid search, the barycentric basis, the containment   *)
(* resolution loop, the time-series reduction, the process-wide KD-tree    *)
(* cache, and the multi-year driver.                                       *)
(*                                                                         *)
(* Numbers.  Mesh and query coordinates are integers, so every float the   *)
(* code computes is a rational or a non-finite value.  A float is a pair   *)
(* <<n, d>>: d > 0 is the rational n/d in lowest terms, <<0,0>> is NaN,     *)
(* <<1,0>> is +inf and <<-1,0>> is -inf (numpy division by zero).  Float    *)
(* rounding is not modelled.                                               *)
(* Arrays are functions over 0..n-1, as in the source.                     *)
(***************************************************************************)
EXTENDS Integers, Sequences, FiniteSets, TLC

\* ------------------------------------------------------------------ floats
Abs(n) == IF n < 0 THEN -n ELSE n
Sign(n) == IF n < 0 THEN -1 ELSE IF n > 0 THEN 1 ELSE 0

RECURSIVE GCD(_, _)
GCD(a, b) == IF b = 0 THEN a ELSE GCD(b, a % b)

\* n/d as a float: numpy yields nan for 0/0 and +-inf for x/0.
Rat(n, d) ==
    IF d = 0 THEN <<Sign(n), 0>>
    ELSE LET g == GCD(Abs(n), Abs(d))
             s == IF d < 0 THEN -1 ELSE 1
         IN  <<(s * n) \div g, (s * d) \div g>>

NaN == <<0, 0>>
IsNaN(f) == f = NaN
IsFinite(f) == f[2] # 0
FromInt(n) == <<n, 1>>

\* f * m for an integer m (IEEE: nan stays nan, inf * 0 is nan).
FMulInt(f, m) ==
    IF IsFinite(f) THEN Rat(f[1] * m, f[2])
    ELSE <<f[1] * Sign(m), 0>>

FAdd(f, g) ==
    IF IsFinite(f) /\ IsFinite(g) THEN Rat(f[1] * g[2] + g[1] * f[2], f[2] * g[2])
    ELSE IF IsNaN(f) \/ IsNaN(g) THEN NaN
    ELSE IF IsFinite(f) THEN g
    ELSE IF IsFinite(g) THEN f
    ELSE IF f = g THEN f ELSE NaN

\* m / f for an integer m.
FDivInt(m, f) ==
    IF IsFinite(f) THEN Rat(m * f[2], f[1])
    ELSE IF IsNaN(f) THEN NaN ELSE <<0, 1>>

\* f <= g; every comparison with nan is false.
FLeq(f, g) ==
    IF IsNaN(f) \/ IsNaN(g) THEN FALSE
    ELSE IF IsFinite(f) /\ IsFinite(g) THEN f[1] * g[2] <= g[1] * f[2]
    ELSE IF IsFinite(f) THEN g[1] = 1
    ELSE IF IsFinite(g) THEN f[1] = -1
    ELSE f[1] <= g[1]

\* ------------------------------------------------------- program constants
TolNum == 1
TolDen == 10000
TOL == <<TolNum, TolDen>>
Sentinel == -99999
Ymin == 1979
Ymax == 2022
YEARS == Ymin .. Ymax

\* ------------------------------------------------------------------ bounds
\* Number of query points in a batch.
NumPoints == 2
\* Largest neighbour count k a caller passes.
MaxK == 3

\* 0-based array from a sequence.
Arr(s) == [i \in 0 .. Len(s) - 1 |-> s[i + 1]]
Size(a) == Cardinality(DOMAIN a)

\* ---------------------------------------------------------------- datasets
\* A dataset as f63_to_xr opens it: node coordinates x, y, the 1-based
\* connectivity "element", and the nodal field zeta with its leading
\* dimension: zeta[time][node], or zeta[node][time] when dims is "node".
\* DsA: three elements around the shared node (3,0) and a zero-area element
\* on the collinear nodes (0,0), (3,0), (6,0).
DsA ==
    [id |-> "A",
     x |-> <<0, 3, 0, 3, 6>>,
     y |-> <<0, 0, 3, 3, 0>>,
     element |-> << <<1, 2, 3>>, <<2, 4, 3>>, <<2, 5, 4>>, <<1, 2, 5>> >>,
     dims |-> "time",
     zeta |-> << <<1, 2, 3, 4, 5>>, <<10, 10, 10, 10, 10>> >>]

\* DsB: a small element and a large one; the small element's centroid is
\* the nearer one for points in the large element's corner.
DsB ==
    [id |-> "B",
     x |-> <<0, 12, 0, 12, 9>>,
     y |-> <<0, 0, 12, 3, 3>>,
     element |-> << <<2, 4, 5>>, <<1, 2, 3>> >>,
     dims |-> "node",
     zeta |-> << <<1, 0>>, <<2, 7>>, <<3, 0>>, <<4, 7>>, <<5, 0>> >>]

\* DsC: a thin element (containment decided by TOL) and two clockwise
\* elements (negative signed area).
DsC ==
    [id |-> "C",
     x |-> <<0, 15000, 0, 3, 3, 0>>,
     y |-> <<0, 0, 3, 6, 3, 6>>,
     element |-> << <<1, 2, 3>>, <<3, 4, 5>>, <<4, 3, 6>> >>,
     dims |-> "time",
     zeta |-> << <<1, 2, 3, 4, 5, 6>>, <<6, 5, 4, 3, 2, 1>> >>]

Datasets == {DsA, DsB, DsC}

QueryPoints == {<<3, 0>>, <<10, 1>>, <<1, 3>>, <<3, 3>>}

Batches == [0 .. NumPoints - 1 -> QueryPoints]

\* ------------------------------------------------------------- mesh model
get_adcirc_grid_from_ds(ds) ==
    [lon |-> Arr(ds.x),
     lat |-> Arr(ds.y),
     ele |-> [i \in 0 .. Len(ds.element) - 1 |->
                 [c \in 0 .. 2 |-> ds.element[i + 1][c + 1] - 1]]]

\* Signed area of every element: (x1*dy23 + x2*dy31 + x3*dy12)/2.
attach_element_areas(agdict) ==
    [i \in DOMAIN agdict.ele |->
        LET e  == agdict.ele[i]
            x1 == agdict.lon[e[0]]
            x2 == agdict.lon[e[1]]
            x3 == agdict.lon[e[2]]
            y1 == agdict.lat[e[0]]
            y2 == agdict.lat[e[1]]
            y3 == agdict.lat[e[2]]
            dy23 == y2 - y3
            dy31 == y3 - y1
            dy12 == y1 - y2
        IN  Rat(x1 * dy23 + x2 * dy31 + x3 * dy12, 2)]

\* Mutant of Numerators: the sign of c is lost in the first basis function.
NumeratorsSignSlip(agdict, p, j) ==
    LET n3 == agdict.ele[j]
        x1 == agdict.lon[n3[0]]
        x2 == agdict.lon[n3[1]]
        x3 == agdict.lon[n3[2]]
        y1 == agdict.lat[n3[0]]
        y2 == agdict.lat[n3[1]]
        y3 == agdict.lat[n3[2]]
        xp == p[1]
        yp == p[2]
    IN  [c \in 0 .. 2 |->
            CASE c = 0 -> (x2 * y3 - x3 * y2) + (y2 - y3) * xp + (x2 - x3) * yp
              [] c = 1 -> (x3 * y1 - x1 * y3) + (y3 - y1) * xp + (-(x3 - x1)) * yp
              [] c = 2 -> (x1 * y2 - x2 * y1) + (y1 - y2) * xp + (-(x1 - x2)) * yp]

\* The three numerators a + b*xp + c*yp of basis2d for element j.
Numerators(agdict, p, j) ==
    LET n3 == agdict.ele[j]
        x1 == agdict.lon[n3[0]]
        x2 == agdict.lon[n3[1]]
        x3 == agdict.lon[n3[2]]
        y1 == agdict.lat[n3[0]]
        y2 == agdict.lat[n3[1]]
        y3 == agdict.lat[n3[2]]
        xp == p[1]
        yp == p[2]
    IN  [c \in 0 .. 2 |->
            CASE c = 0 -> (x2 * y3 - x3 * y2) + (y2 - y3) * xp + (-(x2 - x3)) * yp
              [] c = 1 -> (x3 * y1 - x1 * y3) + (y3 - y1) * xp + (-(x3 - x1)) * yp
              [] c = 2 -> (x1 * y2 - x2 * y1) + (y1 - y2) * xp + (-(x1 - x2)) * yp]

\* phi_c = numerator_c / (2.0 * areaj), for point p against element j.
basis2d(agdict, areas, p, j) ==
    LET num == Numerators(agdict, p, j)
        den == FMulInt(areas[j], 2)
    IN  [c \in 0 .. 2 |-> FDivInt(num[c], den)]

\* all(phi <= 1+TOL) & all(phi >= 0-TOL)
basis2d_withinElement(phi) ==
    /\ \A c \in DOMAIN phi : FLeq(phi[c], FAdd(FromInt(1), TOL))
    /\ \A c \in DOMAIN phi : FLeq(FAdd(FromInt(0), FMulInt(TOL, -1)), phi[c])


\* ---------------------------------------------------------- spatial index
Inf == <<1, 0>>

NoneTree == [built |-> FALSE, data |-> <<>>]

\* Element centroids xe, ye = mean(x[e], axis=1), mean(y[e], axis=1), and
\* the KD-tree over them (the tree is its data).
KDTree(agdict) ==
    [built |-> TRUE,
     data |-> [i \in DOMAIN agdict.ele |->
                 LET e == agdict.ele[i]
                 IN  <<Rat(agdict.lon[e[0]] + agdict.lon[e[1]] + agdict.lon[e[2]], 3),
                       Rat(agdict.lat[e[0]] + agdict.lat[e[1]] + agdict.lat[e[2]], 3)>>]]

\* Squared Euclidean distance from point p to centroid c (the tree orders by
\* distance; the square has the same order).
Dist2(p, c) ==
    LET nx == p[1] * c[1][2] - c[1][1]
        ny == p[2] * c[2][2] - c[2][1]
        dx == c[1][2]
        dy == c[2][2]
    IN  Rat(nx * nx * dy * dy + ny * ny * dx * dx, dx * dx * dy * dy)

\* i comes before j in the nearest-first order of d (ties by index).
Nearer(d, i, j) == (FLeq(d[i], d[j]) /\ d[i] # d[j]) \/ (d[i] = d[j] /\ i < j)

\* The indices in S sorted nearest first.
RECURSIVE NearestFirst(_, _)
NearestFirst(d, S) ==
    IF S = {} THEN <<>>
    ELSE LET m == CHOOSE i \in S : \A j \in S \ {i} : Nearer(d, i, j)
         IN  <<m>> \o NearestFirst(d, S \ {m})

\* tree.query(p, k): the k nearest centroids, nearest first; when the tree
\* holds fewer than k points the missing neighbours are index n at
\* infinite distance.  For k = 1 the neighbour axis is squeezed out.
TreeQuery(tree, p, k) ==
    LET n == Size(tree.data)
        d == [i \in DOMAIN tree.data |-> Dist2(p, tree.data[i])]
        order == NearestFirst(d, DOMAIN tree.data)
        els == [r \in 0 .. k - 1 |-> IF r < n THEN order[r + 1] ELSE n]
        dist == [r \in 0 .. k - 1 |-> IF r < n THEN d[order[r + 1]] ELSE Inf]
    IN  IF k = 1 THEN [elements |-> els[0], distance |-> dist[0]]
        ELSE [elements |-> els, distance |-> dist]

\* if kmax==1: reshape(-1,1), so that every point has a list of candidates.
Reshape(k, v) == IF k = 1 THEN [r \in {0} |-> v] ELSE v

\* ------------------------------------------------------------------- state
VARIABLES
    got_kdtree,   \* the module global: NoneTree or the cached tree
    pc,           \* position of the caller in Combined_pipeline
    ds,           \* the dataset of the current call
    agdict,       \* the grid dictionary of the current call
    geopoints,    \* the query-point batch (the same for every call)
    kmax,         \* nearest_neighbors of the current call
    agresults,    \* the results dictionary of the current call
    locals,       \* locals of ComputeBasisRepresentation while it runs
    product,      \* what Combined_pipeline returned
    err,          \* the exception or exit that ended the call
    first,        \* inputs and results of the first completed resolution
    year_tuple,   \* Combined_multiyear_pipeline: its argument
    ypc,          \* Combined_multiyear_pipeline: position
    sorted_years, \* (start_year, end_year) returned by return_sorted_years
    year,         \* the loop variable
    calls,        \* years Combined_pipeline was called for, in call order
    list_data,    \* the per-year slices appended so far
    df_final_data, \* the concatenated table returned
    yerr          \* how the multi-year call ended when it did not return

engine_vars ==
    <<got_kdtree, pc, ds, agdict, geopoints, kmax, agresults, locals, product,
      err, first>>
years_vars ==
    <<year_tuple, ypc, sorted_years, year, calls, list_data, df_final_data, yerr>>
vars == <<engine_vars, years_vars>>

NoDs ==
    [id |-> "none", x |-> <<>>, y |-> <<>>, element |-> <<>>, dims |-> "time",
     zeta |-> <<>>]
NoAgdict ==
    [complete |-> FALSE, lon |-> <<>>, lat |-> <<>>, ele |-> <<>>,
     areas |-> <<>>, tree |-> NoneTree]
NoResults ==
    [distance |-> <<>>, elements |-> <<>>, number_neighbors |-> 0,
     geopoints |-> <<>>, final_weights |-> <<>>, final_jvals |-> <<>>,
     final_status |-> <<>>, outside_elements |-> <<>>,
     final_reduced_data |-> <<>>, final_meta_data |-> <<>>]
NoLocals ==
    [phival_list |-> <<>>, within_interior |-> <<>>, final_weights |-> <<>>,
     final_jvals |-> <<>>, final_status |-> <<>>, rev |-> <<>>]
NoProduct == [data |-> <<>>, meta |-> <<>>, excluded |-> <<>>]
NoFirst ==
    [valid |-> FALSE, ds |-> "none", kmax |-> 0, tree |-> NoneTree,
     elements |-> <<>>, final_weights |-> <<>>, final_jvals |-> <<>>,
     final_status |-> <<>>, outside_elements |-> <<>>]

\* The first resolution the process completed, kept for comparison with
\* later ones (recorded when the caller starts its next call).
Snapshot ==
    IF first.valid \/ agresults.final_jvals = <<>> THEN first
    ELSE [valid |-> TRUE, ds |-> ds.id, kmax |-> kmax, tree |-> agdict.tree,
          elements |-> agresults.elements,
          final_weights |-> agresults.final_weights,
          final_jvals |-> agresults.final_jvals,
          final_status |-> agresults.final_status,
          outside_elements |-> agresults.outside_elements]


\* ----------------------------------------------------- Combined_pipeline
\* The caller opens a dataset and prepares agdict: f63_to_xr,
\* get_adcirc_grid_from_ds, attach_element_areas.  A call may follow a call
\* that returned or raised.
Load ==
    /\ pc \in {"idle", "returned", "raised"}
    /\ \E d \in Datasets, k \in 1 .. MaxK :
        /\ ds' = d
        /\ kmax' = k
        /\ agdict' =
              LET g == get_adcirc_grid_from_ds(d)
              IN  [complete |-> TRUE, lon |-> g.lon, lat |-> g.lat,
                   ele |-> g.ele, areas |-> attach_element_areas(g),
                   tree |-> NoneTree]
    /\ first' = Snapshot
    /\ agresults' = NoResults
    /\ locals' = NoLocals
    /\ product' = NoProduct
    /\ err' = "none"
    /\ pc' = "loaded"
    /\ UNCHANGED <<got_kdtree, geopoints, years_vars>>

\* A caller hands ComputeTree a dictionary without the lon/lat/ele fields.
LoadIncomplete ==
    /\ pc \in {"idle", "returned", "raised"}
    /\ ds' = NoDs
    /\ kmax' = 0
    /\ agdict' = NoAgdict
    /\ first' = Snapshot
    /\ agresults' = NoResults
    /\ locals' = NoLocals
    /\ product' = NoProduct
    /\ err' = "none"
    /\ pc' = "loaded"
    /\ UNCHANGED <<got_kdtree, geopoints, years_vars>>

\* The tree ComputeTree puts in agdict, given the global.
TreeFor(global, agd) == IF ~global.built THEN KDTree(agd) ELSE global

\* Mutants of GlobalAfter: the tree is rebuilt and stored on every call; the
\* cached tree is built over the node coordinates instead of the centroids.
GlobalAfterRebuild(global, agd) == KDTree(agd)
GlobalAfterNodes(global, agd) ==
    IF ~global.built
    THEN [built |-> TRUE,
          data |-> [i \in DOMAIN agd.lon |-> <<FromInt(agd.lon[i]), FromInt(agd.lat[i])>>]]
    ELSE global

\* The value ComputeTree leaves in the global.
GlobalAfter(global, agd) == IF ~global.built THEN KDTree(agd) ELSE global

ComputeTree ==
    /\ pc = "loaded"
    /\ IF ~agdict.complete
       THEN /\ pc' = "exited"
            /\ err' = "Did not find lon,lat,ele data in agdict."
            /\ UNCHANGED <<got_kdtree, agdict>>
       ELSE /\ agdict' = [agdict EXCEPT !.tree = TreeFor(got_kdtree, agdict)]
            /\ got_kdtree' = GlobalAfter(got_kdtree, agdict)
            /\ pc' = "tree"
            /\ err' = err
    /\ UNCHANGED <<ds, geopoints, kmax, agresults, locals, product, first, years_vars>>

ComputeQuery ==
    /\ pc = "tree"
    /\ LET q == [p \in DOMAIN geopoints |-> TreeQuery(agdict.tree, geopoints[p], kmax)]
       IN  agresults' =
              [agresults EXCEPT
                  !.distance = [p \in DOMAIN geopoints |-> Reshape(kmax, q[p].distance)],
                  !.elements = [p \in DOMAIN geopoints |-> Reshape(kmax, q[p].elements)],
                  !.number_neighbors = kmax,
                  !.geopoints = geopoints]
    /\ pc' = "queried"
    /\ UNCHANGED <<got_kdtree, ds, agdict, geopoints, kmax, locals, product, err,
                   first, years_vars>>

\* Mutants of LoopOrder: the loop without the [::-1] reversal, and a loop
\* that visits only the farthest candidate.
LoopOrderForward(k) == [i \in 1 .. k |-> i - 1]
LoopOrderFarthestOnly(k) == <<k - 1>>

\* The order in which the second loop visits the k candidates:
\* phival_list[::-1], i.e. kmax-1 down to 0.
LoopOrder(k) == [i \in 1 .. k |-> k - i]

\* ComputeBasisRepresentation, first loop and the np.full initialisations.
\* basis2d indexes agdict['ele'] with the candidate elements; an index that
\* is no element of this grid raises IndexError.
BasisBuild ==
    /\ pc = "queried"
    /\ LET k == agresults.number_neighbors
           j == agresults.elements
           ok == \A p \in DOMAIN j : \A kv \in 0 .. k - 1 : j[p][kv] \in DOMAIN agdict.ele
       IN  IF ~ok
           THEN /\ pc' = "raised"
                /\ err' = "IndexError:basis2d"
                /\ locals' = locals
           ELSE LET phival_list ==
                        [kv \in 0 .. k - 1 |->
                            [p \in DOMAIN j |->
                                basis2d(agdict, agdict.areas, geopoints[p], j[p][kv])]]
                IN  /\ locals' =
                          [phival_list |-> phival_list,
                           within_interior |->
                               [kv \in 0 .. k - 1 |->
                                   [p \in DOMAIN j |->
                                       basis2d_withinElement(phival_list[kv][p])]],
                           final_weights |-> [p \in DOMAIN j |-> [c \in 0 .. 2 |-> NaN]],
                           final_jvals |-> [p \in DOMAIN j |-> Sentinel],
                           final_status |-> [p \in DOMAIN j |-> FALSE],
                           rev |-> LoopOrder(k)]
                    /\ pc' = "overwrite"
                    /\ err' = err
    /\ UNCHANGED <<got_kdtree, ds, agdict, geopoints, kmax, agresults, product,
                   first, years_vars>>

\* Mutant of Overwrite: the assignments are not masked by testvals.
OverwriteUnmasked(loc, j, kv) ==
    [loc EXCEPT
        !.final_weights = [p \in DOMAIN loc.final_weights |-> loc.phival_list[kv][p]],
        !.final_jvals = [p \in DOMAIN loc.final_jvals |-> j[p][kv]],
        !.final_status = [p \in DOMAIN loc.final_status |-> loc.within_interior[kv][p]],
        !.rev = Tail(loc.rev)]

\* One iteration of the overwrite loop, for candidate position kv:
\* final_x[testvals] = x[testvals].
Overwrite(loc, j, kv) ==
    LET testvals == loc.within_interior[kv]
    IN  [loc EXCEPT
            !.final_weights = [p \in DOMAIN testvals |->
                IF testvals[p] THEN loc.phival_list[kv][p] ELSE loc.final_weights[p]],
            !.final_jvals = [p \in DOMAIN testvals |->
                IF testvals[p] THEN j[p][kv] ELSE loc.final_jvals[p]],
            !.final_status = [p \in DOMAIN testvals |->
                IF testvals[p] THEN testvals[p] ELSE loc.final_status[p]],
            !.rev = Tail(loc.rev)]

OverwriteStep ==
    /\ pc = "overwrite"
    /\ locals.rev # <<>>
    /\ locals' = Overwrite(locals, agresults.elements, Head(locals.rev))
    /\ UNCHANGED <<got_kdtree, pc, ds, agdict, geopoints, kmax, agresults, product,
                   err, first, years_vars>>

RECURSIVE SortedSeq(_)
SortedSeq(S) ==
    IF S = {} THEN <<>>
    ELSE LET m == CHOOSE x \in S : \A y \in S : x <= y
         IN  <<m>> \o SortedSeq(S \ {m})

\* Mutant of OutsideElements: the indices are reported 1-based.
OutsideElementsOneBased(final_weights) ==
    Arr(SortedSeq({p + 1 : p \in {q \in DOMAIN final_weights :
                      \A c \in DOMAIN final_weights[q] : IsNaN(final_weights[q][c])}}))

\* np.argwhere(np.isnan(final_weights).all(axis=1)).ravel()
OutsideElements(final_weights) ==
    Arr(SortedSeq({p \in DOMAIN final_weights :
                      \A c \in DOMAIN final_weights[p] : IsNaN(final_weights[p][c])}))

BasisFinish ==
    /\ pc = "overwrite"
    /\ locals.rev = <<>>
    /\ agresults' =
          [agresults EXCEPT
              !.final_weights = locals.final_weights,
              !.final_jvals = locals.final_jvals,
              !.final_status = locals.final_status,
              !.outside_elements = OutsideElements(locals.final_weights)]
    /\ pc' = "basis"
    /\ UNCHANGED <<got_kdtree, ds, agdict, geopoints, kmax, locals, product, err,
                   first, years_vars>>


\* numpy indexing of an axis of length n with integer i: negative indices
\* count from the end, anything outside -n .. n-1 raises IndexError.
IndexInBounds(n, i) == -n <= i /\ i < n
NumpyIndex(n, i) == IF i < 0 THEN n + i ELSE i

\* get_adcirc_slice_from_ds(ds, v, it=nodes): the field at the three nodes,
\* one row per time step: var[it,:].T for a node-leading variable, var[:,it]
\* for a time-leading one.
get_adcirc_slice_from_ds(d, nodes) ==
    IF d.dims = "node"
    THEN [t \in 0 .. Len(d.zeta[1]) - 1 |->
             [c \in 0 .. 2 |-> d.zeta[nodes[c] + 1][t + 1]]]
    ELSE [t \in 0 .. Len(d.zeta) - 1 |->
             [c \in 0 .. 2 |-> d.zeta[t + 1][nodes[c] + 1]]]

\* np.matmul(dataseries.values, weights.T), one column per point.
WaterLevelReductions(data_list, final_weights) ==
    [p \in DOMAIN data_list |->
        [t \in DOMAIN data_list[p] |->
            FAdd(FAdd(FMulInt(final_weights[p][0], data_list[p][t][0]),
                      FMulInt(final_weights[p][1], data_list[p][t][1])),
                 FMulInt(final_weights[p][2], data_list[p][t][2]))]]

\* Per point: LON, LAT and final_jvals+1 with -99998 replaced by -99999.
GenerateMetadata(res) ==
    [p \in DOMAIN res.geopoints |->
        [LON |-> res.geopoints[p][1],
         LAT |-> res.geopoints[p][2],
         Element |-> IF res.final_jvals[p] + 1 = -99998 THEN -99999
                     ELSE res.final_jvals[p] + 1]]

ConstructReducedWaterLevelData_from_ds ==
    /\ pc = "basis"
    /\ \E variable_name \in {"None", "zeta", "absent"} :
        IF variable_name = "None"
        THEN /\ pc' = "exited"
             /\ err' = "User MUST supply the correct variable name"
             /\ agresults' = agresults
        ELSE LET e == agdict.ele
                 final_jvals == agresults.final_jvals
                 \* the first point of the loop: e[vstation], then ds.variables[v]
                 ok == \A p \in DOMAIN final_jvals : IndexInBounds(Size(e), final_jvals[p])
                 idx0 == IndexInBounds(Size(e), final_jvals[0])
             IN  IF ~ok \/ variable_name = "absent"
                 THEN /\ pc' = "raised"
                      /\ err' = IF idx0 /\ variable_name = "absent"
                                THEN "KeyError:get_adcirc_slice_from_ds"
                                ELSE "IndexError:ConstructReducedWaterLevelData_from_ds"
                      /\ agresults' = agresults
                 ELSE LET data_list ==
                              [p \in DOMAIN final_jvals |->
                                  get_adcirc_slice_from_ds(
                                      ds, e[NumpyIndex(Size(e), final_jvals[p])])]
                      IN  /\ agresults' =
                                [agresults EXCEPT
                                    !.final_reduced_data =
                                        WaterLevelReductions(data_list, agresults.final_weights),
                                    !.final_meta_data = GenerateMetadata(agresults)]
                          /\ pc' = "reduced"
                          /\ err' = err
    /\ UNCHANGED <<got_kdtree, ds, agdict, geopoints, kmax, locals, product, first,
                   years_vars>>

\* Combined_pipeline returns the data, the metadata and the excluded points
\* geopoints[outside_elements], indexed by outside_elements+1.
Return ==
    /\ pc = "reduced"
    /\ product' =
          [data |-> agresults.final_reduced_data,
           meta |-> agresults.final_meta_data,
           excluded |-> [i \in DOMAIN agresults.outside_elements |->
                          [index |-> agresults.outside_elements[i] + 1,
                           lon |-> geopoints[agresults.outside_elements[i]][1],
                           lat |-> geopoints[agresults.outside_elements[i]][2]]]]
    /\ pc' = "returned"
    /\ UNCHANGED <<got_kdtree, ds, agdict, geopoints, kmax, agresults, locals, err,
                   first, years_vars>>

YearsIdle ==
    /\ year_tuple = <<0, 0>>
    /\ ypc = "unused"
    /\ sorted_years = <<0, 0>>
    /\ year = 0
    /\ calls = <<>>
    /\ list_data = <<>>
    /\ df_final_data = <<>>
    /\ yerr = "none"

Init ==
    /\ got_kdtree = NoneTree
    /\ pc = "idle"
    /\ ds = NoDs
    /\ agdict = NoAgdict
    /\ geopoints \in Batches
    /\ kmax = 0
    /\ agresults = NoResults
    /\ locals = NoLocals
    /\ product = NoProduct
    /\ err = "none"
    /\ first = NoFirst
    /\ YearsIdle

Next ==
    \/ Load
    \/ LoadIncomplete
    \/ ComputeTree
    \/ ComputeQuery
    \/ BasisBuild
    \/ OverwriteStep
    \/ BasisFinish
    \/ ConstructReducedWaterLevelData_from_ds
    \/ Return

Spec == Init /\ [][Next]_vars


\* ------------------------------------------- Combined_multiyear_pipeline
\* Years a caller passes: 0, and the years around both ends of YEARS.
YearSpan == 2
YearInputs ==
    {0} \cup (Ymin - 1 .. Ymin + YearSpan) \cup (Ymax - YearSpan .. Ymax + 1)

\* Time steps per year in a yearly dataset.
StepsPerYear == 2

\* Mutant of SortedPair: the pair is returned as passed.
SortedPairAsPassed(a, b) == <<a, b>>

\* sorted((a, b)) on two years.
SortedPair(a, b) == IF a <= b THEN <<a, b>> ELSE <<b, a>>

\* return_sorted_years: a year not in YEARS becomes None (here <<>>); the
\* test all(year_tuple) is on the argument as passed, so it fails only for
\* a year that is 0; sorted() of a pair holding None raises TypeError.
return_sorted_years(yt) ==
    LET start_year == IF yt[1] \in YEARS THEN <<yt[1]>> ELSE <<>>
        end_year   == IF yt[2] \in YEARS THEN <<yt[2]>> ELSE <<>>
    IN  IF yt[1] # 0 /\ yt[2] # 0
        THEN IF start_year = <<>> \/ end_year = <<>>
             THEN [kind |-> "TypeError", value |-> <<0, 0>>]
             ELSE [kind |-> "return", value |-> SortedPair(start_year[1], end_year[1])]
        ELSE [kind |-> "exit", value |-> <<0, 0>>]

ReturnSortedYears ==
    /\ ypc = "start"
    /\ LET r == return_sorted_years(year_tuple)
       IN  /\ sorted_years' = r.value
           /\ year' = r.value[1]
           /\ ypc' = CASE r.kind = "return" -> "loop"
                       [] r.kind = "exit" -> "exited"
                       [] OTHER -> "raised"
           /\ yerr' = CASE r.kind = "return" -> "none"
                        [] r.kind = "exit" -> "One or more specified years are out of range"
                        [] OTHER -> "TypeError:sorted"
    /\ UNCHANGED <<year_tuple, calls, list_data, df_final_data, engine_vars>>

\* The time index of the dataset of year y: the last step of the year
\* before, the steps of y, and the first two steps of the year after.
TimeIndex(y) ==
    <<<<y - 1, StepsPerYear - 1>>>>
        \o [h \in 1 .. StepsPerYear |-> <<y, h - 1>>]
        \o <<<<y + 1, 0>>, <<y + 1, 1>>>>

\* df_data.loc[f'{year}':f'{year+1}-01-01 00:00:00']: the rows from the
\* start of the year to the first step of the next year, inclusive.
YearSlice(index, y) ==
    SelectSeq(index, LAMBDA ts : ts[1] = y \/ (ts[1] = y + 1 /\ ts[2] = 0))

\* range(start_year, end_year+1): whether the loop has another year.
InRange(y, end_year) == y < end_year + 1

\* One pass of the loop: Combined_pipeline for the year, which returns its
\* table or ends with an exception, then the slice is appended.
YearIteration ==
    /\ ypc = "loop"
    /\ InRange(year, sorted_years[2])
    /\ calls' = Append(calls, year)
    /\ \E outcome \in {"returned", "raised"} :
        IF outcome = "raised"
        THEN /\ ypc' = "raised"
             /\ yerr' = "exception in Combined_pipeline"
             /\ UNCHANGED <<list_data, year>>
        ELSE /\ list_data' =
                  Append(list_data,
                         [i \in DOMAIN YearSlice(TimeIndex(year), year) |->
                             [from |-> year, ts |-> YearSlice(TimeIndex(year), year)[i]]])
             /\ year' = year + 1
             /\ UNCHANGED <<ypc, yerr>>
    /\ UNCHANGED <<year_tuple, sorted_years, df_final_data, engine_vars>>

RECURSIVE Concat(_)
Concat(frames) == IF frames = <<>> THEN <<>> ELSE Head(frames) \o Concat(Tail(frames))

\* After the loop: pd.concat(list_data, axis=0) and return.
YearsReturn ==
    /\ ypc = "loop"
    /\ ~InRange(year, sorted_years[2])
    /\ df_final_data' = Concat(list_data)
    /\ ypc' = "returned"
    /\ UNCHANGED <<year_tuple, sorted_years, year, calls, list_data, yerr, engine_vars>>

InitYears ==
    /\ got_kdtree = NoneTree
    /\ pc = "idle"
    /\ ds = NoDs
    /\ agdict = NoAgdict
    /\ geopoints = <<>>
    /\ kmax = 0
    /\ agresults = NoResults
    /\ locals = NoLocals
    /\ product = NoProduct
    /\ err = "none"
    /\ first = NoFirst
    /\ year_tuple \in YearInputs \X YearInputs
    /\ ypc = "start"
    /\ sorted_years = <<0, 0>>
    /\ year = 0
    /\ calls = <<>>
    /\ list_data = <<>>
    /\ df_final_data = <<>>
    /\ yerr = "none"

NextYears ==
    \/ ReturnSortedYears
    \/ YearIteration
    \/ YearsReturn

SpecYears == InitYears /\ [][NextYears]_vars


\* ================================================================ claims
\* ComputeBasisRepresentation has stored its results in agresults.
Resolved == agresults.final_jvals # <<>>
Points == DOMAIN agresults.final_jvals
Positions == 0 .. agresults.number_neighbors - 1
\* Candidate positions of point p flagged "within".
WithinAt(p) == {kv \in Positions : locals.within_interior[kv][p]}
MinOf(S) == CHOOSE m \in S : \A n \in S : m <= n
RangeOf(a) == {a[i] : i \in DOMAIN a}
PhiSum(phi) == FAdd(FAdd(phi[0], phi[1]), phi[2])
One == FromInt(1)

\* C1: for every point flagged "within" by at least one candidate, the
\* final element and weights are those of the "within" candidate at the
\* smallest position of the nearest-first candidate order.
C1_NearestWithinWins ==
    Resolved =>
        \A p \in Points :
            WithinAt(p) # {} =>
                /\ agresults.final_jvals[p] = agresults.elements[p][MinOf(WithinAt(p))]
                /\ agresults.final_weights[p] = locals.phival_list[MinOf(WithinAt(p))][p]

\* C1 witness: a point whose nearest candidate is not "within", with two
\* "within" candidates on different elements; the nearer of them was kept.
C1_Witness ==
    /\ pc = "basis"
    /\ \E p \in Points : \E a \in WithinAt(p), b \in WithinAt(p) :
        /\ 0 \notin WithinAt(p)
        /\ a = MinOf(WithinAt(p))
        /\ a < b
        /\ agresults.elements[p][a] # agresults.elements[p][b]
        /\ agresults.final_jvals[p] = agresults.elements[p][a]

\* C2: a batch with an unresolved point (final element -99999) does not
\* stop the pipeline: ConstructReducedWaterLevelData_from_ds never raises
\* on it.
C2_UnresolvedPointCompletes ==
    (Resolved /\ \E p \in Points : agresults.final_jvals[p] = Sentinel)
        => err # "IndexError:ConstructReducedWaterLevelData_from_ds"

\* C3: once built, the global tree is never reassigned, the one change of
\* the global stores the tree built from the calling grid, and every call
\* of ComputeTree returns the cached tree.
C3_TreeBuiltOnce ==
    [][/\ got_kdtree.built => got_kdtree' = got_kdtree
       /\ got_kdtree' # got_kdtree => got_kdtree' = KDTree(agdict)
       /\ (pc = "loaded" /\ pc' = "tree") =>
              (got_kdtree'.built /\ agdict'.tree = got_kdtree')]_vars

\* C3 witness: ComputeTree has returned, for another dataset, the tree that
\* an earlier call built.
C3_Witness ==
    /\ pc = "tree"
    /\ agdict.tree = got_kdtree
    /\ got_kdtree.built
    /\ agdict.tree # KDTree(agdict)

\* C5: a point that no candidate flags "within" keeps the sentinel -99999,
\* all-NaN weights and status False, in every state of the overwrite loop
\* and in the stored results.
C5_UnresolvedKeepsSentinel ==
    locals.phival_list # <<>> =>
        \A p \in DOMAIN locals.final_jvals :
            (\A kv \in DOMAIN locals.within_interior : ~locals.within_interior[kv][p]) =>
                /\ locals.final_jvals[p] = Sentinel
                /\ \A c \in 0 .. 2 : IsNaN(locals.final_weights[p][c])
                /\ locals.final_status[p] = FALSE
                /\ Resolved =>
                      /\ agresults.final_jvals[p] = Sentinel
                      /\ \A c \in 0 .. 2 : IsNaN(agresults.final_weights[p][c])
                      /\ agresults.final_status[p] = FALSE

\* C5 witness: after the loop over two or more candidates, one point has no
\* "within" candidate and another point has been assigned an element.
C5_Witness ==
    /\ pc = "basis"
    /\ agresults.number_neighbors >= 2
    /\ \E p \in Points, q \in Points :
        /\ WithinAt(p) = {}
        /\ agresults.final_jvals[p] = Sentinel
        /\ WithinAt(q) # {}
        /\ agresults.final_jvals[q] # Sentinel

\* C6: outside_elements lists, in ascending order, exactly the points with
\* final status False, which are exactly the points that none of the k
\* candidates flags "within".
C6_OutsideIsUnresolvedSet ==
    Resolved =>
        LET out == agresults.outside_elements
        IN  /\ \A i \in DOMAIN out, k \in DOMAIN out : i < k => out[i] < out[k]
            /\ \A p \in Points : p \in RangeOf(out) <=> ~agresults.final_status[p]
            /\ \A p \in Points : p \in RangeOf(out) <=> WithinAt(p) = {}
            /\ RangeOf(out) \subseteq Points

\* C6 witness: one point is listed, and another whose nearest candidate
\* fails is not listed because a farther candidate contains it.
C6_Witness ==
    /\ pc = "basis"
    /\ \E p \in Points, q \in Points :
        /\ p \in RangeOf(agresults.outside_elements)
        /\ q \notin RangeOf(agresults.outside_elements)
        /\ 0 \notin WithinAt(q)
        /\ WithinAt(q) # {}

\* The candidates a are a prefix of the candidates b.
IsPrefix(a, b) == DOMAIN a \subseteq DOMAIN b /\ \A r \in DOMAIN a : a[r] = b[r]
\* The earlier resolution used the same mesh and fewer-or-equal candidates,
\* which are a prefix of the present ones.
SmallerBefore ==
    /\ first.valid /\ Resolved /\ first.ds = ds.id
    /\ \A p \in Points : IsPrefix(first.elements[p], agresults.elements[p])
LargerBefore ==
    /\ first.valid /\ Resolved /\ first.ds = ds.id
    /\ \A p \in Points : IsPrefix(agresults.elements[p], first.elements[p])

C8_WeightsSumToOne ==
    \A kv \in DOMAIN locals.phival_list : \A p \in DOMAIN locals.phival_list[kv] :
        PhiSum(locals.phival_list[kv][p]) = One

\* C8 amended: the numerators sum to twice the signed area for every
\* element, and the weights sum to 1 for every element of nonzero area,
\* whether or not the point lies inside it.
C8_AffineInvariant ==
    \A kv \in DOMAIN locals.phival_list : \A p \in DOMAIN locals.phival_list[kv] :
        LET j == agresults.elements[p][kv]
            num == Numerators(agdict, geopoints[p], j)
        IN  /\ FromInt(num[0] + num[1] + num[2]) = FMulInt(agdict.areas[j], 2)
            /\ agdict.areas[j] # FromInt(0) => PhiSum(locals.phival_list[kv][p]) = One

\* C8 witness: weights that sum to 1 for a point outside the element, on an
\* element of negative signed area.
C8_Witness ==
    \E kv \in DOMAIN locals.phival_list : \E p \in DOMAIN locals.phival_list[kv] :
        /\ ~locals.within_interior[kv][p]
        /\ agdict.areas[agresults.elements[p][kv]][1] < 0
        /\ PhiSum(locals.phival_list[kv][p]) = One

\* C9: a later resolution of the same batch on the same mesh with the same
\* neighbour count gives the elements, weights, statuses and excluded
\* points of the first one.
C9_Idempotent ==
    (first.valid /\ Resolved /\ first.ds = ds.id /\ first.kmax = kmax) =>
        /\ agresults.final_jvals = first.final_jvals
        /\ agresults.final_weights = first.final_weights
        /\ agresults.final_status = first.final_status
        /\ agresults.outside_elements = first.outside_elements

\* C9 witness: the first run built the tree from this mesh, the present run
\* reused it, and the batch has a resolved and an unresolved point.
C9_Witness ==
    /\ first.valid /\ Resolved /\ first.ds = ds.id /\ first.kmax = kmax
    /\ first.tree = KDTree(agdict)
    /\ agdict.tree = got_kdtree
    /\ \E p \in Points, q \in Points :
        agresults.final_status[p] /\ ~agresults.final_status[q]

\* C4: a pair with a year outside [Ymin, Ymax] ends in the diagnostic and
\* sys.exit(1); a pair with both years in range never does.
C4_OutOfRangeExits ==
    ypc # "start" =>
        IF year_tuple[1] \in YEARS /\ year_tuple[2] \in YEARS
        THEN ypc # "exited"
        ELSE ypc = "exited" /\ yerr = "One or more specified years are out of range"

Lo == IF year_tuple[1] <= year_tuple[2] THEN year_tuple[1] ELSE year_tuple[2]
Hi == IF year_tuple[1] <= year_tuple[2] THEN year_tuple[2] ELSE year_tuple[1]

\* C10: Combined_pipeline is called for consecutive ascending years from
\* the smaller year; when the call returns, it was called once for every
\* year up to the larger one and the table holds each year's rows before
\* the next year's.
C10_YearsInOrder ==
    /\ ypc \in {"loop", "returned", "raised"} =>
          \A i \in DOMAIN calls : calls[i] = Lo + i - 1
    /\ ypc = "returned" =>
          /\ Len(calls) = Hi - Lo + 1
          /\ df_final_data =
                Concat([i \in 1 .. Hi - Lo + 1 |->
                           [r \in DOMAIN YearSlice(TimeIndex(Lo + i - 1), Lo + i - 1) |->
                               [from |-> Lo + i - 1,
                                ts |-> YearSlice(TimeIndex(Lo + i - 1), Lo + i - 1)[r]]]])
          /\ \A a \in DOMAIN df_final_data, b \in DOMAIN df_final_data :
                a < b => df_final_data[a].from <= df_final_data[b].from
          /\ {df_final_data[a].from : a \in DOMAIN df_final_data} = Lo .. Hi

\* C10 witness: the years were passed in descending order and the table of
\* three or more years was returned.
C10_Witness ==
    /\ ypc = "returned"
    /\ year_tuple[1] > year_tuple[2] + 1
    /\ df_final_data # <<>>

====
